---- MODULE Spec2Model ----
(***************************************************************************)
(* Model of the catch-mind game server: GameService (game.service.ts) and  *)
(* GameGateway (game.gateway.ts).  Rooms are held in an in-memory map; a    *)
(* room's players are a JS Map (insertion ordered), modelled as a sequence *)
(* of player records without repeated socketId.  Texts (words, guesses)    *)
(* are sequences of one-character strings so that trim() and toLowerCase() *)
(* are computed.  Outbound socket.io events of the last handler run are    *)
(* kept in `out`, each with the set of sockets it is delivered to.         *)
(***************************************************************************)
EXTENDS Integers, Sequences, FiniteSets, TLC

VARIABLES
    rooms,      \* GameService.rooms: roomId -> Room, domain = rooms created so far
    sio,        \* socket.io adapter rooms: room name -> set of sockets in it
    connected,  \* sockets currently connected
    timers,     \* pending setTimeout callbacks of onGuess, in firing order (roomIds)
    out,        \* events emitted by the last handler run
    last,       \* the last handler run: [op, client, roomId]
    payload     \* the payload the last handler run was given (Null when it takes none)

vars == <<rooms, sio, connected, timers, out, last, payload>>

----------------------------------------------------------------------------
(* Bounds of the model *)

MaxShapes == 2       \* strokes appended to one room's log
MaxTimers == 2       \* pending round-advance timers
MaxWins == 1         \* correct guesses scored by one player entry
MaxTextLen == 2      \* characters of a text given to GameService directly

Conns == {"c1", "c2", "c3"}          \* socket ids
RoomIds == {"r1", "c1"}              \* roomId strings sent by clients ("c1" is also a socket id)
Strokes == {"s1", "s2"}              \* stroke objects sent by clients
Rnd == {0, 9}                        \* values of Math.floor(Math.random() * 10) the model draws

\* the userName each client sends
UserName == [c \in Conns |-> CASE c = "c1" -> "n1" [] c = "c2" -> "n2" [] OTHER -> "n3"]

----------------------------------------------------------------------------
(* Program constants *)

\* mockWords: each Hangul syllable (one character of the string) is written
\* as one romanised token; none is a letter with case or white space
mockWords ==
    << <<"sa", "gwa">>, <<"ba", "na", "na">>, <<"keom", "pyu", "teo">>,
       <<"ja", "dong", "cha">>, <<"keo", "pi">>, <<"ui", "ja">>, <<"chaek", "sang">>,
       <<"hyu", "dae", "pon">>, <<"ja", "jeon", "geo">>, <<"ka", "me", "ra">> >>

ScoreAward == 10

Undefined == "undefined"        \* JS undefined for a socket id or a name
Null == [null |-> TRUE]         \* JS null / undefined for an object
NoWord == <<"undefined">>       \* JS undefined for a text (no character is "undefined")

----------------------------------------------------------------------------
(* JavaScript helpers *)

\* truthiness of an optional socket id (room.roundOwner): undefined and "" are falsy
TruthyId(v) == v # Undefined /\ v # ""

\* truthiness of an optional text (room.currentWord): undefined and "" are falsy
TruthyWord(w) == w # NoWord /\ w # <<>>

\* white space removed by String.prototype.trim (the characters the model uses)
IsWhiteSpace(ch) == ch \in {" ", "\t"}

\* String.prototype.toLowerCase on one character (the letters the model uses)
LowerChar(ch) ==
    CASE ch = "A" -> "a"
      [] OTHER -> ch

ToLowerCase(s) == [i \in 1..Len(s) |-> LowerChar(s[i])]

RECURSIVE TrimStart(_)
TrimStart(s) ==
    IF s # <<>> /\ IsWhiteSpace(Head(s)) THEN TrimStart(Tail(s)) ELSE s

RECURSIVE TrimEnd(_)
TrimEnd(s) ==
    IF s # <<>> /\ IsWhiteSpace(s[Len(s)]) THEN TrimEnd(SubSeq(s, 1, Len(s) - 1)) ELSE s

Trim(s) == TrimEnd(TrimStart(s))

\* Map.prototype.has on room.players
MapHas(players, socketId) == \E i \in 1..Len(players) : players[i].socketId = socketId

\* Map.prototype.get on room.players (Null when absent)
MapGet(players, socketId) ==
    IF MapHas(players, socketId)
    THEN players[CHOOSE i \in 1..Len(players) : players[i].socketId = socketId]
    ELSE Null

\* Map.prototype.set: an existing key keeps its place and gets the new value,
\* a new key goes last
MapSet(players, socketId, player) ==
    IF MapHas(players, socketId)
    THEN [i \in 1..Len(players) |->
            IF players[i].socketId = socketId THEN player ELSE players[i]]
    ELSE Append(players, player)

\* Map.prototype.delete
MapDelete(players, socketId) == SelectSeq(players, LAMBDA p : p.socketId # socketId)

\* Array.prototype.findIndex(p => p.socketId === id): 0-based, -1 when absent
FindIndex(players, id) ==
    IF MapHas(players, id)
    THEN (CHOOSE i \in 1..Len(players) :
            /\ players[i].socketId = id
            /\ \A j \in 1..(i - 1) : players[j].socketId # id) - 1
    ELSE -1

----------------------------------------------------------------------------
(* GameService *)

NewRoom(roomId) ==
    [id |-> roomId, players |-> <<>>, shapes |-> <<>>,
     currentWord |-> NoWord, roundOwner |-> Undefined]

ensureRoom(rs, roomId) ==
    IF roomId \in DOMAIN rs THEN rs ELSE rs @@ (roomId :> NewRoom(roomId))

\* addPlayer that assigns the presenter and leaves the word unset
addPlayerOwnerOnly(rs, roomId, socketId, name, rnd) ==
    LET rs1 == ensureRoom(rs, roomId)
        room == rs1[roomId]
        players1 == MapSet(room.players, socketId,
                           [socketId |-> socketId, name |-> name, score |-> 0])
    IN  IF ~TruthyId(room.roundOwner)
        THEN [rs1 EXCEPT ![roomId] = [room EXCEPT !.players = players1,
                                                  !.roundOwner = socketId]]
        ELSE [rs1 EXCEPT ![roomId] = [room EXCEPT !.players = players1]]

\* addPlayer that assigns a presenter also when the room's presenter is no
\* longer one of its players
addPlayerReassign(rs, roomId, socketId, name, rnd) ==
    LET rs1 == ensureRoom(rs, roomId)
        room == rs1[roomId]
        players1 == MapSet(room.players, socketId,
                           [socketId |-> socketId, name |-> name, score |-> 0])
    IN  IF ~TruthyId(room.roundOwner) \/ ~MapHas(room.players, room.roundOwner)
        THEN [rs1 EXCEPT ![roomId] = [room EXCEPT !.players = players1,
                                                  !.roundOwner = socketId,
                                                  !.currentWord = mockWords[rnd + 1]]]
        ELSE [rs1 EXCEPT ![roomId] = [room EXCEPT !.players = players1]]

\* rnd is the value of Math.floor(Math.random() * mockWords.length)
addPlayer(rs, roomId, socketId, name, rnd) ==
    LET rs1 == ensureRoom(rs, roomId)
        room == rs1[roomId]
        players1 == MapSet(room.players, socketId,
                           [socketId |-> socketId, name |-> name, score |-> 0])
    IN  IF ~TruthyId(room.roundOwner)
        THEN [rs1 EXCEPT ![roomId] = [room EXCEPT !.players = players1,
                                                  !.roundOwner = socketId,
                                                  !.currentWord = mockWords[rnd + 1]]]
        ELSE [rs1 EXCEPT ![roomId] = [room EXCEPT !.players = players1]]

removePlayerFromAll(rs, socketId) ==
    [r \in DOMAIN rs |-> [rs[r] EXCEPT !.players = MapDelete(@, socketId)]]

appendShape(rs, roomId, shape) ==
    LET rs1 == ensureRoom(rs, roomId)
    IN  [rs1 EXCEPT ![roomId].shapes = Append(@, shape)]

\* the object getRoomState returns, read from the registry after ensureRoom
getRoomState(rs, roomId) ==
    LET room == ensureRoom(rs, roomId)[roomId]
    IN  [players |-> room.players,
         shapes |-> room.shapes,
         currentWord |-> TruthyWord(room.currentWord),
         roundOwner |-> room.roundOwner]

getCurrentWord(rs, roomId) ==
    IF roomId \in DOMAIN rs THEN rs[roomId].currentWord ELSE NoWord

setCurrentWord(rs, roomId, word, ownerSocketId) ==
    LET rs1 == ensureRoom(rs, roomId)
    IN  [rs1 EXCEPT ![roomId].currentWord = word, ![roomId].roundOwner = ownerSocketId]

\* the comparison of checkGuess without trim() and toLowerCase() on the guess
isCorrectRawGuess(currentWord, guess) == ToLowerCase(Trim(currentWord)) = guess

\* the comparison of checkGuess
isCorrect(currentWord, guess) == ToLowerCase(Trim(currentWord)) = ToLowerCase(Trim(guess))

\* the value checkGuess returns
checkGuessResult(rs, roomId, socketId, guess) ==
    LET room == ensureRoom(rs, roomId)[roomId]
        player == MapGet(room.players, socketId)
    IN  IF ~TruthyWord(room.currentWord) THEN [correct |-> FALSE]
        ELSE IF isCorrect(room.currentWord, guess)
        THEN [correct |-> TRUE,
              playerName |-> IF player = Null THEN Undefined ELSE player.name,
              score |-> IF player = Null THEN 0 ELSE player.score + ScoreAward]
        ELSE [correct |-> FALSE]

\* checkGuess that awards every player of the room on a correct guess
checkGuessAwardAll(rs, roomId, socketId, guess) ==
    LET rs1 == ensureRoom(rs, roomId)
        room == rs1[roomId]
    IN  IF /\ TruthyWord(room.currentWord)
           /\ ToLowerCase(Trim(room.currentWord)) = ToLowerCase(Trim(guess))
           /\ MapHas(room.players, socketId)
        THEN [rs1 EXCEPT ![roomId].players =
                [i \in 1..Len(room.players) |->
                    [room.players[i] EXCEPT !.score = @ + ScoreAward]]]
        ELSE rs1

\* the registry after checkGuess
checkGuess(rs, roomId, socketId, guess) ==
    LET rs1 == ensureRoom(rs, roomId)
        room == rs1[roomId]
    IN  IF /\ TruthyWord(room.currentWord)
           /\ isCorrect(room.currentWord, guess)
           /\ MapHas(room.players, socketId)
        THEN [rs1 EXCEPT ![roomId].players =
                MapSet(@, socketId,
                       [MapGet(room.players, socketId) EXCEPT !.score = @ + ScoreAward])]
        ELSE rs1

\* startNextRound that keeps the presenter's index (no + 1)
startNextRoundResultSameIndex(rs, roomId, rnd) ==
    LET room == ensureRoom(rs, roomId)[roomId]
        players == room.players
        currentPresenterIndex == FindIndex(players, room.roundOwner)
        nextPresenterIndex == IF currentPresenterIndex < 0 THEN 0 ELSE currentPresenterIndex
    IN  IF Len(players) = 0 THEN Null
        ELSE [nextPresenter |-> players[nextPresenterIndex + 1],
              newWord |-> mockWords[rnd + 1]]

\* startNextRound that goes on from the last player when the presenter is
\* not among the players
startNextRoundResultFromLast(rs, roomId, rnd) ==
    LET room == ensureRoom(rs, roomId)[roomId]
        players == room.players
        currentPresenterIndex == FindIndex(players, room.roundOwner)
        nextPresenterIndex == IF currentPresenterIndex < 0
                              THEN Len(players) - 1
                              ELSE (currentPresenterIndex + 1) % Len(players)
    IN  IF Len(players) = 0 THEN Null
        ELSE [nextPresenter |-> players[nextPresenterIndex + 1],
              newWord |-> mockWords[rnd + 1]]

\* the value startNextRound returns (Null for null)
startNextRoundResult(rs, roomId, rnd) ==
    LET room == ensureRoom(rs, roomId)[roomId]
        players == room.players
        currentPresenterIndex == FindIndex(players, room.roundOwner)
        nextPresenterIndex == (currentPresenterIndex + 1) % Len(players)
    IN  IF Len(players) = 0 THEN Null
        ELSE [nextPresenter |-> players[nextPresenterIndex + 1],
              newWord |-> mockWords[rnd + 1]]

\* startNextRound that keeps the strokes of the round before
startNextRoundKeepShapes(rs, roomId, rnd) ==
    LET rs1 == ensureRoom(rs, roomId)
        room == rs1[roomId]
        players == room.players
        next == (FindIndex(players, room.roundOwner) + 1) % Len(players)
    IN  IF Len(players) = 0 THEN rs1
        ELSE [rs1 EXCEPT ![roomId].roundOwner = players[next + 1].socketId,
                         ![roomId].currentWord = mockWords[rnd + 1]]

\* startNextRound that empties the stroke log before the check for players
startNextRoundClearFirst(rs, roomId, rnd) ==
    LET rs1 == ensureRoom(rs, roomId)
        res == startNextRoundResult(rs, roomId, rnd)
    IN  IF res = Null THEN [rs1 EXCEPT ![roomId].shapes = <<>>]
        ELSE [rs1 EXCEPT ![roomId].roundOwner = res.nextPresenter.socketId,
                         ![roomId].currentWord = res.newWord,
                         ![roomId].shapes = <<>>]

\* the registry after startNextRound
startNextRound(rs, roomId, rnd) ==
    LET rs1 == ensureRoom(rs, roomId)
        res == startNextRoundResult(rs, roomId, rnd)
    IN  IF res = Null THEN rs1
        ELSE [rs1 EXCEPT ![roomId].roundOwner = res.nextPresenter.socketId,
                         ![roomId].currentWord = res.newWord,
                         ![roomId].shapes = <<>>]

----------------------------------------------------------------------------
(* Payloads and their validation (class-validator on the DTO classes) *)

\* a JS value of a payload field
Str(v) == [type |-> "string", value |-> v]
Obj(v) == [type |-> "object", value |-> v]

\* String.length of the strings the model sends: "" or a two-character string
StrLength(v) == IF v = "" THEN 0 ELSE 2

IsString(x) == x.type = "string"
IsObject(x) == x.type = "object"
Length(x, min, max) == IsString(x) /\ StrLength(x.value) >= min /\ StrLength(x.value) <= max

\* validate(plainToInstance(JoinGameDto, payload)) finds no error
validJoinGameDto(p) ==
    /\ IsString(p.roomId) /\ Length(p.roomId, 1, 50)
    /\ IsString(p.userName) /\ Length(p.userName, 1, 30)

validDrawDto(p) == IsString(p.roomId) /\ IsObject(p.data)

validGuessDto(p) == IsString(p.roomId) /\ IsString(p.guess)

\* the payloads client c sends for the rooms R
JoinPayloads(c, R) == {[roomId |-> Str(r), userName |-> Str(UserName[c])] : r \in R}

DrawPayloads(R) == {[roomId |-> Str(r), data |-> Obj(d)] : r \in R, d \in Strokes}

\* guesses: the words the model draws, the first of them also with surrounding
\* white space
GuessTexts ==
    {mockWords[i + 1] : i \in Rnd} \cup {<<" ">> \o mockWords[1] \o <<"\t">>}

GuessPayloads(R, G) == {[roomId |-> Str(r), guess |-> Str(g)] : r \in R, g \in G}

LeavePayloads(R) == {[roomId |-> Str(r)] : r \in R}

\* a JS number (written in digits) and a field that is missing (undefined)
Num(v) == [type |-> "number", value |-> v]
Missing == [type |-> "undefined", value |-> Undefined]

\* payloads that do not have the shape of their event: an empty roomId or
\* userName and a number as roomId for joinGame; a string as data and a
\* number as roomId for drawing; a number as guess and as roomId for
\* submitGuess; a number as roomId and no roomId for leaveGame
InvalidJoinPayloads(c) ==
    {[roomId |-> Str(""), userName |-> Str(UserName[c])],
     [roomId |-> Str("r1"), userName |-> Str("")],
     [roomId |-> Num("42"), userName |-> Str(UserName[c])]}

InvalidDrawPayloads ==
    {[roomId |-> Str("r1"), data |-> Str("s1")],
     [roomId |-> Num("42"), data |-> Obj("s1")]}

InvalidGuessPayloads ==
    {[roomId |-> Str("r1"), guess |-> Num(<<"4", "2">>)],
     [roomId |-> Num("42"), guess |-> Str(mockWords[1])]}

InvalidLeavePayloads == {[roomId |-> Num("42")], [roomId |-> Missing]}

----------------------------------------------------------------------------
(* socket.io *)

RoomNames == RoomIds \cup Conns

\* the sockets in socket.io room `name`
SioRoom(s, name) == IF name \in DOMAIN s THEN s[name] ELSE {}

\* socket.join(name) / socket.leave(name)
SioJoin(s, c, name) == [s EXCEPT ![name] = @ \cup {c}]
SioLeave(s, c, name) == IF name \in DOMAIN s THEN [s EXCEPT ![name] = @ \ {c}] ELSE s

\* a disconnecting socket leaves every room
SioLeaveAll(s, c) == [n \in DOMAIN s |-> s[n] \ {c}]

\* an emitted event with the sockets it is delivered to
Event(type, to, data) == [type |-> type, to |-> to, data |-> data]

\* WsException raised by a handler: the exceptions filter answers the client only
Exception(c) == Event("exception", {c}, [message |-> "Validation failed"])

\* what the last handler run was
Handled(op, c, roomId) == [op |-> op, client |-> c, roomId |-> roomId]

----------------------------------------------------------------------------
(* GameGateway *)

Init ==
    /\ rooms = <<>>
    /\ sio = [n \in RoomNames |-> IF n \in Conns THEN {n} ELSE {}]
    /\ connected = Conns
    /\ timers = <<>>
    /\ out = <<>>
    /\ last = Handled("init", Undefined, Undefined)
    /\ payload = Null

\* the events onJoin emits after addPlayer, with the registry rs and adapter s
onJoinEvents(rs, s, c, roomId, userName) ==
    LET roomState == getRoomState(rs, roomId)
        found == MapHas(roomState.players, roomState.roundOwner)
        presenter == MapGet(roomState.players, roomState.roundOwner)
        word == getCurrentWord(rs, roomId)
    IN  << Event("initialState", {c}, roomState),
           Event("userJoined", SioRoom(s, roomId) \ {c}, [id |-> c, name |-> userName]) >>
        \o (IF found
            THEN << Event("presenterAssigned", SioRoom(s, roomId),
                          [presenterId |-> presenter.socketId,
                           presenterName |-> presenter.name]) >>
                 \o (IF TruthyWord(word)
                     THEN << Event("roundStarted", SioRoom(s, presenter.socketId),
                                   [word |-> word]) >>
                     ELSE <<>>)
            ELSE <<>>)

OnJoin(c, p, rnd) ==
    /\ c \in connected
    /\ last' = Handled("joinGame", c, p.roomId.value)
    /\ payload' = p
    /\ UNCHANGED <<connected, timers>>
    /\ IF validJoinGameDto(p)
       THEN LET roomId == p.roomId.value
                userName == p.userName.value
                s1 == SioJoin(sio, c, roomId)
                rs1 == addPlayer(rooms, roomId, c, userName, rnd)
            IN  /\ sio' = s1
                /\ rooms' = rs1
                /\ out' = onJoinEvents(rs1, s1, c, roomId, userName)
       ELSE /\ out' = <<Exception(c)>>
            /\ UNCHANGED <<rooms, sio>>

\* onDraw without the presenter check
OnDrawAnyone(c, p) ==
    /\ c \in connected
    /\ last' = Handled("drawing", c, p.roomId.value)
    /\ payload' = p
    /\ UNCHANGED <<connected, timers, sio>>
    /\ LET roomId == p.roomId.value
           rs1 == ensureRoom(rooms, roomId)
       IN  /\ Len(rs1[roomId].shapes) < MaxShapes
           /\ rooms' = appendShape(rs1, roomId, p.data.value)
           /\ out' = << Event("drawing:remote", SioRoom(sio, roomId) \ {c},
                              [from |-> c, data |-> p.data.value]) >>

OnDraw(c, p) ==
    /\ c \in connected
    /\ last' = Handled("drawing", c, p.roomId.value)
    /\ payload' = p
    /\ UNCHANGED <<connected, timers, sio>>
    /\ IF validDrawDto(p)
       THEN LET roomId == p.roomId.value
                rs1 == ensureRoom(rooms, roomId)
                roomState == getRoomState(rooms, roomId)
            IN  IF c # roomState.roundOwner
                THEN /\ rooms' = rs1
                     /\ out' = <<>>
                ELSE /\ Len(rs1[roomId].shapes) < MaxShapes
                     /\ rooms' = appendShape(rs1, roomId, p.data.value)
                     /\ out' = << Event("drawing:remote", SioRoom(sio, roomId) \ {c},
                                        [from |-> c, data |-> p.data.value]) >>
       ELSE /\ out' = <<Exception(c)>>
            /\ UNCHANGED rooms

\* the events onGuess emits before the timeout, with the registry rs after checkGuess
onGuessEvents(rs, res, c, roomId, guess) ==
    LET roomState == getRoomState(rs, roomId)
        guesser == MapGet(roomState.players, c)
        guesserName == IF guesser = Null THEN Undefined ELSE guesser.name
    IN  << Event("guessResult", SioRoom(sio, roomId),
                 [from |-> c, playerName |-> guesserName, guess |-> guess, res |-> res]) >>
        \o (IF res.correct
            THEN << Event("roundEnded", SioRoom(sio, roomId),
                          [winnerId |-> c, winnerName |-> guesserName,
                           score |-> res.score]) >>
            ELSE <<>>)

OnGuess(c, p) ==
    /\ c \in connected
    /\ last' = Handled("submitGuess", c, p.roomId.value)
    /\ payload' = p
    /\ UNCHANGED <<connected, sio>>
    /\ IF validGuessDto(p)
       THEN LET roomId == p.roomId.value
                guess == p.guess.value
                res == checkGuessResult(rooms, roomId, c, guess)
                rs1 == checkGuess(rooms, roomId, c, guess)
            IN  /\ res.correct =>
                    /\ Len(timers) < MaxTimers
                    /\ res.score <= MaxWins * ScoreAward
                /\ rooms' = rs1
                /\ out' = onGuessEvents(rs1, res, c, roomId, guess)
                /\ timers' = IF res.correct THEN Append(timers, roomId) ELSE timers
       ELSE /\ out' = <<Exception(c)>>
            /\ UNCHANGED <<rooms, timers>>

\* the setTimeout callback of onGuess, 3000 ms after a correct guess
RoundTimer(rnd) ==
    /\ timers # <<>>
    /\ LET roomId == Head(timers)
           newRoundData == startNextRoundResult(rooms, roomId, rnd)
       IN  /\ rooms' = startNextRound(rooms, roomId, rnd)
           /\ last' = Handled("timeout", Undefined, roomId)
           /\ payload' = Null
           /\ out' =
                IF newRoundData # Null
                THEN << Event("newRoundStarting", SioRoom(sio, roomId), Null),
                        Event("presenterAssigned", SioRoom(sio, roomId),
                              [presenterId |-> newRoundData.nextPresenter.socketId,
                               presenterName |-> newRoundData.nextPresenter.name]),
                        Event("roundStarted",
                              SioRoom(sio, newRoundData.nextPresenter.socketId),
                              [word |-> newRoundData.newWord]) >>
                ELSE <<>>
    /\ timers' = Tail(timers)
    /\ UNCHANGED <<connected, sio>>

\* onLeave that drops the pending round advances of the room left
OnLeaveCancelTimers(c, p) ==
    /\ c \in connected
    /\ last' = Handled("leaveGame", c, p.roomId.value)
    /\ payload' = p
    /\ LET roomId == p.roomId.value
           s1 == SioLeave(sio, c, roomId)
       IN  /\ sio' = s1
           /\ rooms' = removePlayerFromAll(rooms, c)
           /\ out' = << Event("userLeft", SioRoom(s1, roomId), [id |-> c]) >>
           /\ timers' = SelectSeq(timers, LAMBDA t : t # roomId)
    /\ UNCHANGED connected

OnLeave(c, p) ==
    /\ c \in connected
    /\ last' = Handled("leaveGame", c, p.roomId.value)
    /\ payload' = p
    /\ LET roomId == p.roomId.value
           s1 == SioLeave(sio, c, roomId)
       IN  /\ sio' = s1
           /\ rooms' = removePlayerFromAll(rooms, c)
           /\ out' = << Event("userLeft", SioRoom(s1, roomId), [id |-> c]) >>
    /\ UNCHANGED <<connected, timers>>

\* handleDisconnect that tells the rooms of the socket that it left
HandleDisconnectNotify(c) ==
    /\ c \in connected
    /\ last' = Handled("disconnect", c, Undefined)
    /\ payload' = Null
    /\ connected' = connected \ {c}
    /\ sio' = SioLeaveAll(sio, c)
    /\ rooms' = removePlayerFromAll(rooms, c)
    /\ out' = << Event("userLeft", UNION {SioRoom(sio, r) : r \in DOMAIN rooms} \ {c}, [id |-> c]) >>
    /\ UNCHANGED timers

HandleDisconnect(c) ==
    /\ c \in connected
    /\ last' = Handled("disconnect", c, Undefined)
    /\ payload' = Null
    /\ connected' = connected \ {c}
    /\ sio' = SioLeaveAll(sio, c)
    /\ rooms' = removePlayerFromAll(rooms, c)
    /\ out' = <<>>
    /\ UNCHANGED timers

\* one room, two clients, every operation
Clients == {"c1", "c2"}

Next ==
    \/ \E c \in Clients : \E p \in JoinPayloads(c, {"r1"}), rnd \in Rnd : OnJoin(c, p, rnd)
    \/ \E c \in Clients, p \in DrawPayloads({"r1"}) : OnDraw(c, p)
    \/ \E c \in Clients, p \in GuessPayloads({"r1"}, GuessTexts) : OnGuess(c, p)
    \/ \E c \in Clients, p \in LeavePayloads({"r1"}) : OnLeave(c, p)
    \/ \E c \in Clients : HandleDisconnect(c)
    \/ \E rnd \in Rnd : RoundTimer(rnd)

Spec == Init /\ [][Next]_vars

\* the timeout callback of a pending timer runs: Node fires a 3000 ms timer
\* whatever the clients do
SpecFair == Spec /\ WF_vars(\E rnd \in Rnd : RoundTimer(rnd))

\* two rooms, one of them named by the socket id of client c1: c1 plays in r1,
\* c2 in both rooms; one word drawn for each room, one stroke value
RoomsOf(c) == IF c = "c1" THEN {"r1"} ELSE RoomIds

RndOf(roomId) == IF roomId = "r1" THEN {0} ELSE {9}

NextRooms ==
    \/ \E c \in Clients : \E p \in JoinPayloads(c, RoomsOf(c)) : \E rnd \in RndOf(p.roomId.value) : OnJoin(c, p, rnd)
    \/ \E c \in Clients, p \in {q \in DrawPayloads({"r1"}) : q.data.value = "s1"} : OnDraw(c, p)
    \/ \E c \in Clients, p \in GuessPayloads({"r1"}, {mockWords[1]}) : OnGuess(c, p)
    \/ \E c \in Clients : \E p \in LeavePayloads(RoomsOf(c)) : OnLeave(c, p)
    \/ \E c \in Clients : HandleDisconnect(c)
    \/ \E rnd \in {0} : RoundTimer(rnd)

SpecRooms == Init /\ [][NextRooms]_vars

\* one room, three clients that join, guess and let the rounds advance
NextRound ==
    \/ \E c \in Conns : \E p \in JoinPayloads(c, {"r1"}), rnd \in Rnd : OnJoin(c, p, rnd)
    \/ \E c \in Conns, p \in GuessPayloads({"r1"}, GuessTexts) : OnGuess(c, p)
    \/ \E rnd \in Rnd : RoundTimer(rnd)

SpecRound == Init /\ [][NextRound]_vars

\* GameService.setCurrentWord called directly (no gateway handler calls it)
SetCurrentWord(roomId, word, ownerSocketId) ==
    /\ rooms' = setCurrentWord(rooms, roomId, word, ownerSocketId)
    /\ out' = <<>>
    /\ last' = Handled("setCurrentWord", ownerSocketId, roomId)
    /\ payload' = Null
    /\ UNCHANGED <<sio, connected, timers>>

\* texts over a letter in both cases and a blank
Chars == {"A", "a", " "}
Texts == UNION {[1..n -> Chars] : n \in 0..MaxTextLen}

\* the service given arbitrary words, and guesses of arbitrary texts
NextService ==
    \/ \E w \in Texts : SetCurrentWord("r1", w, "c1")
    \/ \E p \in GuessPayloads({"r1"}, Texts) : OnGuess("c2", p)
    \/ \E rnd \in {0} : RoundTimer(rnd)

SpecService == Init /\ [][NextService]_vars

\* one room, two clients, payloads with and without the shape of their event
NextPayloads ==
    \/ \E c \in Clients : \E p \in JoinPayloads(c, {"r1"}) \cup InvalidJoinPayloads(c) : OnJoin(c, p, 0)
    \/ \E c \in Clients, p \in {q \in DrawPayloads({"r1"}) : q.data.value = "s1"} \cup InvalidDrawPayloads : OnDraw(c, p)
    \/ \E c \in Clients, p \in GuessPayloads({"r1"}, {mockWords[1]}) \cup InvalidGuessPayloads : OnGuess(c, p)
    \/ \E c \in Clients, p \in LeavePayloads({"r1"}) \cup InvalidLeavePayloads : OnLeave(c, p)
    \/ RoundTimer(0)

SpecPayloads == Init /\ [][NextPayloads]_vars

\* one room, three clients that join, leave, disconnect, guess and let the
\* rounds advance
NextLeave ==
    \/ \E c \in Conns : \E p \in JoinPayloads(c, {"r1"}) : OnJoin(c, p, 0)
    \/ \E c \in Conns, p \in GuessPayloads({"r1"}, {mockWords[1]}) : OnGuess(c, p)
    \/ \E c \in Conns, p \in LeavePayloads({"r1"}) : OnLeave(c, p)
    \/ \E c \in Conns : HandleDisconnect(c)
    \/ RoundTimer(0)

SpecLeave == Init /\ [][NextLeave]_vars

----------------------------------------------------------------------------
(* Properties *)

\* the room named r, as ensureRoom would return it
RoomView(rs, r) == ensureRoom(rs, r)[r]

\* C1: in every room, after any sequence of operations, the presenter
\* (roundOwner) is set if and only if the secret (currentWord) is set.
C1_PresenterIffSecret ==
    \A r \in DOMAIN rooms :
        (rooms[r].roundOwner # Undefined) <=> (rooms[r].currentWord # NoWord)

\* a round advance has just set both, in a room that a join had set up before
C1_Witness ==
    /\ last.op = "timeout"
    /\ out # <<>>
    /\ rooms["r1"].roundOwner # Undefined
    /\ rooms["r1"].currentWord # NoWord

\* C2: in every room, a presenter that is set is a current member of the
\* room's players, also after the presenter leaves or disconnects.
C2_PresenterIsMember ==
    \A r \in DOMAIN rooms :
        rooms[r].roundOwner # Undefined => MapHas(rooms[r].players, rooms[r].roundOwner)

\* C3: an event that carries the current secret of the room it was emitted
\* for is delivered to no connection other than that room's current presenter.
C3_SecretOnlyToPresenter ==
    \A i \in 1..Len(out) :
        (/\ out[i].type = "roundStarted"
         /\ last.roomId \in DOMAIN rooms
         /\ out[i].data.word = rooms[last.roomId].currentWord)
            => out[i].to \subseteq {rooms[last.roomId].roundOwner}

\* C4: across every step, the score of a player that is a member of a room
\* before and after the step does not decrease (a repeated join included).
C4_ScoreNeverDecreases ==
    [][\A r \in DOMAIN rooms : \A c \in Conns :
            (MapHas(rooms[r].players, c) /\ MapHas(rooms'[r].players, c))
                => MapGet(rooms'[r].players, c).score >= MapGet(rooms[r].players, c).score]_vars

\* the stroke log of room r before it exists is the empty log of a new room
ShapesOf(rs, r) == RoomView(rs, r).shapes

\* a step that ran the timeout callback for room r and started a round
AdvancedRound(r) == last'.op = "timeout" /\ last'.roomId = r /\ out' # <<>>

\* log `new` is log `old` with one record appended
Extended(old, new) == Len(new) = Len(old) + 1 /\ SubSeq(new, 1, Len(old)) = old

\* C5: a step that is not a successful round advance leaves a room's stroke
\* log unchanged or appends one record to it; a successful round advance
\* leaves it empty.
C5_StrokesClearedAtRoundStart ==
    [][\A r \in DOMAIN rooms' :
            IF AdvancedRound(r)
            THEN rooms'[r].shapes = <<>>
            ELSE \/ rooms'[r].shapes = ShapesOf(rooms, r)
                 \/ Extended(ShapesOf(rooms, r), rooms'[r].shapes)]_vars

\* a round has just started in a room with two players, its log empty
C5_Witness ==
    /\ last.op = "timeout"
    /\ out # <<>>
    /\ Len(rooms["r1"].players) = 2
    /\ rooms["r1"].shapes = <<>>

\* C6: a draw event sent by a connection that is not the room's presenter
\* (none set included) appends nothing to the stroke log and relays nothing.
C6_NonPresenterDrawIgnored ==
    [][(last'.op = "drawing" /\ last'.client # rooms'[last'.roomId].roundOwner)
            => /\ rooms'[last'.roomId].shapes = ShapesOf(rooms, last'.roomId)
               /\ \A i \in 1..Len(out') : out'[i].type # "drawing:remote"]_vars

\* a member that is not the presenter has drawn while the log held a stroke
C6_Witness ==
    /\ last.op = "drawing"
    /\ rooms[last.roomId].roundOwner # Undefined
    /\ last.client # rooms[last.roomId].roundOwner
    /\ MapHas(rooms[last.roomId].players, last.client)
    /\ Len(rooms[last.roomId].shapes) = 1
    /\ out = <<>>

\* the guessResult event of the last handler run, a submitGuess
GuessResult == out[1].data.res

\* C7: a guess changes nothing of any room except the score of the guessing
\* player, which a correct guess raises by exactly 10; a guess that is not
\* correct changes nothing.
C7_GuessOnlyScoresGuesser ==
    [][(last'.op = "submitGuess" /\ out'[1].type = "guessResult") =>
            \A r \in DOMAIN rooms' :
                LET old == RoomView(rooms, r)
                    new == rooms'[r]
                IN  /\ new.shapes = old.shapes
                    /\ new.roundOwner = old.roundOwner
                    /\ new.currentWord = old.currentWord
                    /\ Len(new.players) = Len(old.players)
                    /\ \A i \in 1..Len(old.players) :
                        /\ new.players[i].socketId = old.players[i].socketId
                        /\ new.players[i].name = old.players[i].name
                        /\ new.players[i].score =
                            IF /\ out'[1].data.res.correct
                               /\ r = last'.roomId
                               /\ old.players[i].socketId = last'.client
                            THEN old.players[i].score + 10
                            ELSE old.players[i].score]_vars

\* a member has guessed the word and holds 10 points, the other member none
C7_Witness ==
    /\ last.op = "submitGuess"
    /\ GuessResult.correct
    /\ Len(rooms["r1"].players) = 2
    /\ MapGet(rooms["r1"].players, last.client).score = 10
    /\ \E i \in 1..2 : rooms["r1"].players[i].score = 0

\* the characters of s between its first and its last character that is not
\* white space
Core(s) ==
    LET I == {i \in 1..Len(s) : ~IsWhiteSpace(s[i])}
    IN  IF I = {} THEN <<>>
        ELSE SubSeq(s, CHOOSE i \in I : \A j \in I : i <= j,
                       CHOOSE i \in I : \A j \in I : i >= j)

\* two characters that are equal or the two cases of one letter
SameLetter(a, b) == a = b \/ {a, b} = {"A", "a"}

\* two texts equal up to surrounding white space and the case of letters
EqualNormalized(a, b) ==
    /\ Len(Core(a)) = Len(Core(b))
    /\ \A i \in 1..Len(Core(a)) : SameLetter(Core(a)[i], Core(b)[i])

\* C8: a guess is reported correct exactly when the room has a secret (its
\* snapshot flag is set) and the guess equals it up to surrounding white
\* space and case; with no secret every guess is reported not correct.
C8_GuessMatchesNormalized ==
    (last.op = "submitGuess" /\ out[1].type = "guessResult") =>
        (GuessResult.correct <=>
            /\ getRoomState(rooms, last.roomId).currentWord
            /\ EqualNormalized(rooms[last.roomId].currentWord, out[1].data.guess))

\* a guess that differs from the secret in case and in surrounding white
\* space was reported correct
C8_Witness ==
    /\ last.op = "submitGuess"
    /\ GuessResult.correct
    /\ rooms["r1"].currentWord = <<"A", " ">>
    /\ out[1].data.guess = <<" ", "a">>

\* C9: when the timeout callback runs for a room with n >= 1 players whose
\* presenter is the k-th player in join order, the new presenter is the
\* player after it, the first player after the last (the same player for n = 1).
C9_RoundRobin ==
    [][\A r \in DOMAIN rooms :
            LET players == rooms[r].players
                n == Len(players)
            IN  \A k \in 1..n :
                    (/\ last'.op = "timeout"
                     /\ last'.roomId = r
                     /\ players[k].socketId = rooms[r].roundOwner)
                        => rooms'[r].roundOwner =
                                players[IF k = n THEN 1 ELSE k + 1].socketId]_vars

\* a round has just started with the first of three players as presenter,
\* after each of the three has won a round
C9_Witness ==
    /\ last.op = "timeout"
    /\ out # <<>>
    /\ Len(rooms["r1"].players) = 3
    /\ rooms["r1"].roundOwner = rooms["r1"].players[1].socketId
    /\ \A i \in 1..3 : rooms["r1"].players[i].score = 10

\* the types of the events of the last handler run, in order
OutTypes == [i \in 1..Len(out) |-> out[i].type]

\* C10: a correct guess emits guessResult then roundEnded, both to the whole
\* room; the timeout callback that gets a result emits newRoundStarting and
\* presenterAssigned (naming the new presenter) to the whole room, then
\* roundStarted with the new secret to the new presenter's connection only;
\* a guess that is not correct emits guessResult alone.
C10_EventOrder ==
    /\ (last.op = "submitGuess" /\ out[1].type = "guessResult") =>
        /\ OutTypes = IF GuessResult.correct
                      THEN <<"guessResult", "roundEnded">>
                      ELSE <<"guessResult">>
        /\ \A i \in 1..Len(out) : out[i].to = SioRoom(sio, last.roomId)
    /\ (last.op = "timeout" /\ out # <<>>) =>
        /\ OutTypes = <<"newRoundStarting", "presenterAssigned", "roundStarted">>
        /\ out[1].to = SioRoom(sio, last.roomId)
        /\ out[2].to = SioRoom(sio, last.roomId)
        /\ out[2].data.presenterId = rooms[last.roomId].roundOwner
        /\ out[3].data.word = rooms[last.roomId].currentWord
        /\ out[3].to = {rooms[last.roomId].roundOwner}

\* C11: every valid join emits, after the snapshot to the joiner and the
\* userJoined notice to the other members, presenterAssigned to the whole room
\* naming the room's presenter and roundStarted with the room's secret to the
\* presenter's connection alone.
C11_JoinAnnouncesPresenter ==
    (last.op = "joinGame" /\ validJoinGameDto(payload)) =>
        /\ OutTypes = <<"initialState", "userJoined", "presenterAssigned", "roundStarted">>
        /\ out[1].to = {last.client}
        /\ out[2].to = SioRoom(sio, last.roomId) \ {last.client}
        /\ out[3].to = SioRoom(sio, last.roomId)
        /\ out[3].data.presenterId = rooms[last.roomId].roundOwner
        /\ out[4].to = {rooms[last.roomId].roundOwner}
        /\ out[4].data.word = rooms[last.roomId].currentWord

\* C12: a leave of room roomId by a connection removes that connection from
\* the players of room roomId and changes nothing else: every other room is
\* unchanged, and roundOwner, currentWord and shapes of room roomId are
\* unchanged, also when the presenter leaves.
C12_LeaveOnlyThatRoom ==
    [][last'.op = "leaveGame" =>
            /\ DOMAIN rooms' = DOMAIN rooms
            /\ \A r \in DOMAIN rooms :
                rooms'[r] = IF r = last'.roomId
                            THEN [rooms[r] EXCEPT !.players = MapDelete(@, last'.client)]
                            ELSE rooms[r]]_vars

\* the payload p does not have the shape of the event op (a leaveGame payload
\* is an object with a string roomId)
ShapeFails(op, p) ==
    CASE op = "joinGame" -> ~validJoinGameDto(p)
      [] op = "drawing" -> ~validDrawDto(p)
      [] op = "submitGuess" -> ~validGuessDto(p)
      [] op = "leaveGame" -> ~IsString(p.roomId)
      [] OTHER -> FALSE

\* C13: a joinGame, drawing, submitGuess or leaveGame whose payload does not
\* have the shape of its event changes no room (none created, no players,
\* score, roundOwner, currentWord or shapes changed), schedules nothing and
\* emits no event to a connection other than the sender.
C13_InvalidPayloadRejected ==
    [][ShapeFails(last'.op, payload') =>
            /\ rooms' = rooms
            /\ timers' = timers
            /\ \A i \in 1..Len(out') : out'[i].to \subseteq {last'.client}]_vars

\* C14: the presenter assignment of a join happens exactly once per room: a
\* room without a presenter has had no join, the valid join to it makes the joiner
\* presenter and sets a secret, the room keeps a presenter ever after, and a
\* join to a room that has a presenter changes neither presenter nor secret,
\* also when the room has no players left or its presenter has left.
C14_FirstPresenterOnce ==
    [][\A r \in DOMAIN rooms' :
            LET old == RoomView(rooms, r)
                new == rooms'[r]
            IN  /\ ~TruthyId(old.roundOwner) => old.players = <<>>
                /\ TruthyId(old.roundOwner) => TruthyId(new.roundOwner)
                /\ (last'.op = "joinGame" /\ last'.roomId = r /\ validJoinGameDto(payload')) =>
                        IF TruthyId(old.roundOwner)
                        THEN /\ new.roundOwner = old.roundOwner
                             /\ new.currentWord = old.currentWord
                        ELSE /\ new.roundOwner = last'.client
                             /\ TruthyWord(new.currentWord)]_vars

\* a connection has joined a room that its presenter and all players had
\* left, and is not the presenter
C14_Witness ==
    /\ last.op = "joinGame"
    /\ Len(rooms["r1"].players) = 1
    /\ rooms["r1"].players[1].socketId = last.client
    /\ rooms["r1"].players[1].score = 0
    /\ TruthyId(rooms["r1"].roundOwner)
    /\ rooms["r1"].roundOwner # last.client
    /\ OutTypes = <<"initialState", "userJoined">>

\* C15: when the timeout callback runs for a room that has players and whose
\* presenter is not one of them, the new presenter is the first player in
\* join order, and the presenter is a player of the room again.
C15_MissingPresenterFallback ==
    [][\A r \in DOMAIN rooms :
            (/\ last'.op = "timeout"
             /\ last'.roomId = r
             /\ Len(rooms[r].players) > 0
             /\ ~MapHas(rooms[r].players, rooms[r].roundOwner))
                => /\ rooms'[r].roundOwner = rooms[r].players[1].socketId
                   /\ MapHas(rooms'[r].players, rooms'[r].roundOwner)]_vars

\* a round has started with the first of two players as presenter; neither
\* has scored, the winner of the round before (the presenter) has left
C15_Witness ==
    /\ last.op = "timeout"
    /\ out # <<>>
    /\ Len(rooms["r1"].players) = 2
    /\ rooms["r1"].roundOwner = rooms["r1"].players[1].socketId
    /\ \A i \in 1..2 : rooms["r1"].players[i].score = 0
    /\ timers = <<>>

\* C16: when the timeout callback runs for a room without players, it does
\* nothing: startNextRound returns null, the room's roundOwner, currentWord
\* and shapes (and every other room) are unchanged, and no newRoundStarting,
\* presenterAssigned or roundStarted is emitted.
C16_EmptyRoomTimerNoOp ==
    [][(last'.op = "timeout" /\ Len(RoomView(rooms, last'.roomId).players) = 0) =>
            /\ \A rnd \in Rnd : startNextRoundResult(rooms, last'.roomId, rnd) = Null
            /\ rooms' = rooms
            /\ out' = <<>>]_vars

\* the timer of a room has fired after all its players left; the room still
\* has its presenter, its secret and a stroke
C16_Witness ==
    /\ last.op = "timeout"
    /\ out = <<>>
    /\ rooms["r1"].players = <<>>
    /\ TruthyId(rooms["r1"].roundOwner)
    /\ TruthyWord(rooms["r1"].currentWord)
    /\ Len(rooms["r1"].shapes) = 1

\* a round advance of room r is pending
Pending(r) == \E i \in 1..Len(timers) : timers[i] = r

\* C17: a correct guess schedules one round advance of its room, which no
\* join, draw, guess, leave or disconnect removes; the timer being fair, every
\* pending advance runs; and when it runs for a room that has a player, a new
\* round starts whose presenter is a player of the room.
C17_AdvanceNotCancelled ==
    /\ \A r \in RoomIds : Pending(r) ~> (last.op = "timeout" /\ last.roomId = r)
    /\ [][IF last'.op = "timeout"
          THEN /\ timers # <<>>
               /\ last'.roomId = Head(timers)
               /\ timers' = Tail(timers)
               /\ Len(RoomView(rooms, last'.roomId).players) > 0 =>
                    /\ out' # <<>>
                    /\ out'[1].type = "newRoundStarting"
                    /\ MapHas(rooms'[last'.roomId].players, rooms'[last'.roomId].roundOwner)
          ELSE IF last'.op = "submitGuess" /\ out'[1].type = "guessResult" /\ out'[1].data.res.correct
          THEN timers' = Append(timers, last'.roomId)
          ELSE timers' = timers]_vars

\* a round has started for the one player left, who has not scored: the
\* winner left (or disconnected) while the advance was pending
C17_Witness ==
    /\ last.op = "timeout"
    /\ out # <<>>
    /\ Len(rooms["r1"].players) = 1
    /\ rooms["r1"].players[1].score = 0
    /\ rooms["r1"].roundOwner = rooms["r1"].players[1].socketId
    /\ timers = <<>>

\* C18: a disconnect removes the connection from the players of every room
\* and does nothing else: no room is created, every room keeps its roundOwner,
\* currentWord, shapes and the entries of its other players, no event is
\* emitted and no round advance is run or scheduled.
C18_DisconnectOnlyRemoves ==
    [][last'.op = "disconnect" =>
            /\ DOMAIN rooms' = DOMAIN rooms
            /\ \A r \in DOMAIN rooms :
                rooms'[r] = [rooms[r] EXCEPT !.players = MapDelete(@, last'.client)]
            /\ out' = <<>>
            /\ timers' = timers]_vars

\* the presenter of both rooms has disconnected while a round advance was
\* pending: it is a player of neither room, the other player of r1 is still one
C18_Witness ==
    /\ last.op = "disconnect"
    /\ DOMAIN rooms = RoomIds
    /\ \A r \in RoomIds : rooms[r].roundOwner = last.client
    /\ \A r \in RoomIds : ~MapHas(rooms[r].players, last.client)
    /\ Len(rooms["r1"].players) = 1
    /\ timers # <<>>

\* C19: while a round advance of a room is pending (from a correct guess
\* until the timeout callback it scheduled), no guess in that room is judged
\* correct, scores or schedules another advance: a room never has more than
\* one pending advance.
C19_OnePendingAdvance ==
    /\ \A r \in DOMAIN rooms :
        Cardinality({i \in 1..Len(timers) : timers[i] = r}) <= 1
    /\ (/\ last.op = "submitGuess"
        /\ out[1].type = "guessResult"
        /\ GuessResult.correct) =>
            SelectSeq(timers, LAMBDA t : t = last.roomId) = <<last.roomId>>

\* C20: a stroke is appended to a room's stroke log only by a drawing of a
\* connection that is a player of the room at that moment; a connection that
\* left the room or never joined it does not extend the log.
C20_StrokesFromMembers ==
    [][\A r \in DOMAIN rooms' :
            (last'.op = "drawing" /\ rooms'[r].shapes # ShapesOf(rooms, r))
                => MapHas(rooms'[r].players, last'.client)]_vars

====
